---------------------------- MODULE Spec2Model ----------------------------
(***************************************************************************)
(* Model of process_invoice.py v3.3 (landed-cost calculator).              *)
(*                                                                         *)
(* A Python str is modelled as a sequence of one-character strings, so     *)
(* that the regular expressions, norm(), csv splitting and number parsing  *)
(* are computed character by character as the code computes them.          *)
(* A Python value stored in a record (dict) is a tagged tuple:             *)
(*   <<"str", s>>  <<"none">>  <<"int", n>>  <<"float", m, sc>>            *)
(*   <<"list", l>>                                                         *)
(* A float is kept as the decimal m / 10^sc it was parsed from.            *)
(***************************************************************************)
EXTENDS Integers, Sequences, FiniteSets, TLC

VARIABLES
    invoice,     \* rows returned by csv.reader for the invoice file
    worksheet,   \* text lines of the customs worksheet, in page order
    factors,     \* the caller's FactorTable: duty -> factor
    pc,          \* position in process_invoice
    hdr,         \* hdr: the header list (mutated by process_invoice)
    rows,        \* rows: the list of record dicts
    cols,        \* the column names price, qty, desc, duty
    mapping,     \* parse_customs_pdf: mapping (insertion-ordered dict)
    prev_desc,   \* parse_customs_pdf: prev_desc
    li,          \* parse_customs_pdf: number of worksheet lines consumed
    ri,          \* process_invoice: number of records fully processed
    out,         \* the output file: <<"absent">> or <<"file", rows>>
    err          \* the exception that ended the run, or NoErr

vars == <<invoice, worksheet, factors, pc, hdr, rows, cols, mapping,
          prev_desc, li, ri, out, err>>

-----------------------------------------------------------------------------
(* Characters and strings                                                  *)

UpperSeq == <<"A","B","C","D","E","F","G","H","I","J","K","L","M",
              "N","O","P","Q","R","S","T","U","V","W","X","Y","Z">>
LowerSeq == <<"a","b","c","d","e","f","g","h","i","j","k","l","m",
              "n","o","p","q","r","s","t","u","v","w","x","y","z">>
DigitSeq == <<"0","1","2","3","4","5","6","7","8","9">>

Range(s) == {s[i] : i \in DOMAIN s}
Upper == Range(UpperSeq)
Lower == Range(LowerSeq)
Digit == Range(DigitSeq)
Space == {" ", "\t"}

IndexOf(s, c) == CHOOSE i \in DOMAIN s : s[i] = c
Max2(a, b) == IF a >= b THEN a ELSE b
Min2(a, b) == IF a <= b THEN a ELSE b

\* str.lower() for one character
LowerChar(c) == IF c \in Upper THEN LowerSeq[IndexOf(UpperSeq, c)] ELSE c
\* str.lower()
LowerStr(s) == [i \in DOMAIN s |-> LowerChar(s[i])]
\* str.isalpha() for one character
IsAlpha(c) == c \in Upper \cup Lower
\* the value of a decimal digit
DigitVal(c) == IndexOf(DigitSeq, c) - 1

\* the digits of s read as one integer, '.' skipped
RECURSIVE DigitsVal(_, _)
DigitsVal(s, acc) ==
    IF s = <<>> THEN acc
    ELSE IF Head(s) = "." THEN DigitsVal(Tail(s), acc)
    ELSE DigitsVal(Tail(s), 10 * acc + DigitVal(Head(s)))

\* s[a:b] with 0-based, end-exclusive Python bounds
Slice(s, a, b) == SubSeq(s, a + 1, Min2(b, Len(s)))

\* str.strip(): leading and trailing whitespace removed
RECURSIVE LStrip(_)
LStrip(s) == IF s # <<>> /\ Head(s) \in Space THEN LStrip(Tail(s)) ELSE s
RECURSIVE RStrip(_)
RStrip(s) ==
    IF s # <<>> /\ s[Len(s)] \in Space THEN RStrip(SubSeq(s, 1, Len(s) - 1))
    ELSE s
Strip(s) == RStrip(LStrip(s))

\* k in s (substring test)
Contains(s, k) ==
    \E i \in 0..(Len(s) - Len(k)) : SubSeq(s, i + 1, i + Len(k)) = k

\* sep.join(parts)
RECURSIVE Join(_, _)
Join(sep, parts) ==
    IF parts = <<>> THEN <<>>
    ELSE IF Len(parts) = 1 THEN parts[1]
    ELSE parts[1] \o sep \o Join(sep, Tail(parts))

\* str.split(sep) for a one-character separator: always at least one part
RECURSIVE SplitOn(_, _, _, _)
SplitOn(s, sep, cur, acc) ==
    IF s = <<>> THEN Append(acc, cur)
    ELSE IF Head(s) = sep THEN SplitOn(Tail(s), sep, <<>>, Append(acc, cur))
    ELSE SplitOn(Tail(s), sep, Append(cur, Head(s)), acc)

\* str.split(): split on runs of whitespace, no empty parts
RECURSIVE SplitWs(_, _, _)
SplitWs(s, cur, acc) ==
    IF s = <<>> THEN (IF cur = <<>> THEN acc ELSE Append(acc, cur))
    ELSE IF Head(s) \in Space
         THEN SplitWs(Tail(s), <<>>, IF cur = <<>> THEN acc ELSE Append(acc, cur))
    ELSE SplitWs(Tail(s), Append(cur, Head(s)), acc)

-----------------------------------------------------------------------------
(* Regular expressions and norm()                                          *)

\* NUM_RE.sub("", s): every character other than a digit or '.' removed
NUM_RE_sub(s) == SelectSeq(s, LAMBDA c : c \in Digit \cup {"."})

\* norm: lower-case, each run of characters outside [a-z0-9 ] becomes one
\* space, then strip
NormKeep == Lower \cup Digit \cup {" "}
RECURSIVE NormSub(_, _)
NormSub(s, inRun) ==
    IF s = <<>> THEN <<>>
    ELSE IF Head(s) \in NormKeep THEN <<Head(s)>> \o NormSub(Tail(s), FALSE)
    ELSE IF inRun THEN NormSub(Tail(s), TRUE)
    ELSE <<" ">> \o NormSub(Tail(s), TRUE)
\* norm with the final .strip() left out
norm_nostrip(t) == NormSub(LowerStr(t), FALSE)
norm(t) == Strip(NormSub(LowerStr(t), FALSE))

\* \w
IsWordChar(c) == c \in Upper \cup Lower \cup Digit \cup {"_"}
\* whether position p (p characters to the left) of s is a \b word boundary
WordAt(s, i) == i >= 1 /\ i <= Len(s) /\ IsWordChar(s[i])
WordBoundary(s, p) == WordAt(s, p) # WordAt(s, p + 1)

CharAt(s, i, c) == i >= 1 /\ i <= Len(s) /\ s[i] = c
SpaceAt(s, i) == i >= 1 /\ i <= Len(s) /\ s[i] \in Space

\* The ends (last index) the optional group (?:\s?%|\s?\.0{1,2})? can reach
\* after the digits ending at index e, in the order backtracking tries them.
DutySuffixEnds(s, e) ==
    (IF SpaceAt(s, e + 1) /\ CharAt(s, e + 2, "%") THEN <<e + 2>> ELSE <<>>)
 \o (IF CharAt(s, e + 1, "%") THEN <<e + 1>> ELSE <<>>)
 \o (IF SpaceAt(s, e + 1) /\ CharAt(s, e + 2, ".") /\ CharAt(s, e + 3, "0")
        /\ CharAt(s, e + 4, "0") THEN <<e + 4>> ELSE <<>>)
 \o (IF SpaceAt(s, e + 1) /\ CharAt(s, e + 2, ".") /\ CharAt(s, e + 3, "0")
        THEN <<e + 3>> ELSE <<>>)
 \o (IF CharAt(s, e + 1, ".") /\ CharAt(s, e + 2, "0") /\ CharAt(s, e + 3, "0")
        THEN <<e + 3>> ELSE <<>>)
 \o (IF CharAt(s, e + 1, ".") /\ CharAt(s, e + 2, "0") THEN <<e + 2>> ELSE <<>>)
 \o <<e>>

\* The match of DUTY_PAT that starts at index i with n digits: its last
\* index, or 0 when there is none.
DutyTry(s, i, n) ==
    IF /\ i + n - 1 <= Len(s)
       /\ \A k \in i..(i + n - 1) : s[k] \in Digit
    THEN LET ends == SelectSeq(DutySuffixEnds(s, i + n - 1),
                               LAMBDA e : WordBoundary(s, e))
         IN IF ends = <<>> THEN 0 ELSE ends[1]
    ELSE 0

NoMatch == [found |-> FALSE, re |-> "none", start |-> 0, end |-> 0, group1 |-> 0]

\* DUTY_PAT match starting at index i (\d{1,2} is greedy: two digits first)
DutyMatchAt(s, i) ==
    LET ends == [n \in 1..2 |-> DutyTry(s, i, n)]
        n == IF ends[2] # 0 THEN 2 ELSE 1
    IN IF ~WordBoundary(s, i - 1) \/ ends[n] = 0 THEN NoMatch
       ELSE [found |-> TRUE, re |-> "DUTY_PAT", start |-> i - 1,
             end |-> ends[n], group1 |-> DigitsVal(SubSeq(s, i, i + n - 1), 0)]

\* DUTY_PAT.search(s): the leftmost match; start is the 0-based m.start()
DUTY_PAT_search(s) ==
    LET at == [i \in 1..Len(s) |-> DutyMatchAt(s, i)]
        hits == {i \in 1..Len(s) : at[i].found}
    IN IF hits = {} THEN NoMatch
       ELSE at[CHOOSE i \in hits : \A j \in hits : i <= j]

\* FREE_PAT.search(s): \bFREE\b, ignoring case
FreeMatchAt(s, i) ==
    /\ i + 3 <= Len(s)
    /\ LowerStr(SubSeq(s, i, i + 3)) = <<"f","r","e","e">>
    /\ WordBoundary(s, i - 1)
    /\ WordBoundary(s, i + 3)
FREE_PAT_search(s) ==
    LET hits == {i \in 1..Len(s) : FreeMatchAt(s, i)}
    IN IF hits = {} THEN NoMatch
       ELSE LET i == CHOOSE i \in hits : \A j \in hits : i <= j
            IN [found |-> TRUE, re |-> "FREE_PAT", start |-> i - 1,
                end |-> i + 3, group1 |-> 0]

\* DUTY_PAT.search(line) or FREE_PAT.search(line)
DutySignal(line) ==
    LET m == DUTY_PAT_search(line)
    IN IF m.found THEN m ELSE FREE_PAT_search(line)

\* 0 if m.re is FREE_PAT or m.group(0).upper()=="FREE" else int(m.group(1))
SignalDuty(line, m) ==
    IF m.re = "FREE_PAT"
       \/ LowerStr(SubSeq(line, m.start + 1, m.end)) = <<"f","r","e","e">>
    THEN 0 ELSE m.group1

-----------------------------------------------------------------------------
(* Insertion-ordered dict: a sequence of <<key, value>> pairs              *)

DictKeys(d) == [i \in DOMAIN d |-> d[i][1]]
DictHas(d, k) == \E i \in DOMAIN d : d[i][1] = k
DictGet(d, k) == d[CHOOSE i \in DOMAIN d : d[i][1] = k][2]
\* d[k] = v: an existing key keeps its place
DictSet(d, k, v) ==
    IF DictHas(d, k)
    THEN [i \in DOMAIN d |-> IF d[i][1] = k THEN <<k, v>> ELSE d[i]]
    ELSE Append(d, <<k, v>>)


-----------------------------------------------------------------------------
(* Python values held in a record, and decimal numbers                     *)

StrV(s) == <<"str", s>>
NoneV == <<"none">>
IntV(n) == <<"int", n>>
FloatV(m, sc) == <<"float", m, sc>>
ListV(l) == <<"list", l>>
\* the dict key None (DictReader's restkey), distinct from every str key
NoneKey == <<"None">>

RECURSIVE Pow10(_)
Pow10(n) == IF n = 0 THEN 1 ELSE 10 * Pow10(n - 1)

\* str(n) for an int n >= 0
RECURSIVE IntToStr(_)
IntToStr(n) ==
    IF n < 10 THEN <<DigitSeq[n + 1]>>
    ELSE IntToStr(n \div 10) \o <<DigitSeq[(n % 10) + 1]>>

\* n as exactly k digits, zero-padded on the left
RECURSIVE PadDigits(_, _)
PadDigits(n, k) ==
    IF k = 0 THEN <<>>
    ELSE PadDigits(n \div 10, k - 1) \o <<DigitSeq[(n % 10) + 1]>>

\* the number of trailing zeros of the digits of m, m > 0
RECURSIVE TrailingZeros(_)
TrailingZeros(m) == IF m % 10 # 0 THEN 0 ELSE 1 + TrailingZeros(m \div 10)
Zeros(n) == [i \in 1..n |-> "0"]
\* the exponent of repr: sign and at least two digits
ReprExponent(exp) ==
    <<"e", IF exp < 0 THEN "-" ELSE "+">>
    \o (IF exp > -10 /\ exp < 10 THEN <<"0">> ELSE <<>>)
    \o IntToStr(IF exp < 0 THEN -exp ELSE exp)
\* repr of the float with the significant digits D and the value
\* D / 10^s, so the decimal exponent Len(D) - 1 - s: exponent notation
\* when that is below -4 or at least 16, else positional digits with at
\* least one fraction digit
ReprDigits(D, s) ==
    IF Len(D) - 1 - s < -4 \/ Len(D) - 1 - s >= 16
    THEN <<D[1]>> \o (IF Len(D) > 1 THEN <<".">> \o Tail(D) ELSE <<>>)
         \o ReprExponent(Len(D) - 1 - s)
    ELSE IF s <= 0 THEN D \o Zeros(-s) \o <<".", "0">>
    ELSE IF Len(D) > s
    THEN SubSeq(D, 1, Len(D) - s) \o <<".">> \o SubSeq(D, Len(D) - s + 1, Len(D))
    ELSE <<"0", ".">> \o Zeros(s - Len(D)) \o D
\* repr of the float m / 10^sc (sc of either sign): the shortest decimal
\* that reads back as the float, which is m / 10^sc itself for the up to
\* ten digits m holds
FloatRepr(m, sc) ==
    IF m = 0 THEN <<"0", ".", "0">>
    ELSE ReprDigits(IntToStr(m \div Pow10(TrailingZeros(m))),
                    sc - TrailingZeros(m))

\* str(v)
PyStr(v) ==
    CASE v[1] = "str" -> v[2]
      [] v[1] = "none" -> <<"N","o","n","e">>
      [] v[1] = "int" -> IntToStr(v[2])
      [] v[1] = "float" -> FloatRepr(v[2], v[3])

CountOf(s, c) == Cardinality({i \in DOMAIN s : s[i] = c})

\* float(s) for s made of digits and '.' only: accepted iff s has a digit
\* and at most one '.'; otherwise ValueError.  The value is m / 10^sc.
FloatOk(s) == CountOf(s, ".") <= 1 /\ \E i \in DOMAIN s : s[i] \in Digit
FloatOf(s) ==
    LET dot == IF CountOf(s, ".") = 0 THEN Len(s) + 1 ELSE IndexOf(s, ".")
    IN [m |-> DigitsVal(s, 0), sc |-> Max2(Len(s) - dot, 0)]

\* float(x or 0) where x = NUM_RE.sub("", s): the empty string gives 0.0
StrippedOk(s) == LET x == NUM_RE_sub(s) IN x = <<>> \/ FloatOk(x)
StrippedFloat(s) ==
    LET x == NUM_RE_sub(s)
    IN IF x = <<>> THEN [m |-> 0, sc |-> 0] ELSE FloatOf(x)

\* smart_float(v) = float(NUM_RE.sub("", str(v)) or 0)
smart_float_ok(v) == StrippedOk(PyStr(v))
smart_float(v) == StrippedFloat(PyStr(v))

\* int(x) for the float x = m / 10^sc, x >= 0: truncation
IntOfFloat(x) == x.m \div Pow10(x.sc)

\* round(x, 2) for x = m / 10^sc, in hundredths.  Off a tie the result is
\* the nearest hundredth.  On an exact decimal tie the binary double that
\* the product really is lies on either side, so both neighbours are kept.
Round2(m, sc) ==
    IF sc <= 2 THEN {m * Pow10(2 - sc)}
    ELSE LET unit == Pow10(sc - 2)
             q == m \div unit
             r == m % unit
         IN IF 2 * r < unit THEN {q}
            ELSE IF 2 * r > unit THEN {q + 1}
            ELSE {q, q + 1}

\* f"{x:.2f}" for x given in hundredths
Format2f(c) == IntToStr(c \div 100) \o <<".">> \o PadDigits(c % 100, 2)

-----------------------------------------------------------------------------
(* read_invoice and find_col                                               *)

S_duty == <<"d","u","t","y">>
S_tariff == <<"t","a","r","i","f","f">>
S_rate == <<"r","a","t","e">>
S_unit_price == <<"u","n","i","t"," ","p","r","i","c","e">>
S_price == <<"p","r","i","c","e">>
S_item_price == <<"i","t","e","m"," ","p","r","i","c","e">>
S_price_unit == <<"p","r","i","c","e","/","u","n","i","t">>
S_qty == <<"q","t","y">>
S_quantity == <<"q","u","a","n","t","i","t","y">>
S_units == <<"u","n","i","t","s">>
S_pcs == <<"p","c","s">>
S_description == <<"d","e","s","c","r","i","p","t","i","o","n">>
S_product == <<"p","r","o","d","u","c","t">>
S_item == <<"i","t","e","m">>
S_dec == <<"d","e","c">>
S_dec_dot == <<"d","e","c",".">>
S_factor == <<"f","a","c","t","o","r">>
S_value == <<"v","a","l","u","e">>
S_total == <<"t","o","t","a","l">>

\* COL_KEYWORDS, in the dict's order
COL_KEYWORDS(key) ==
    CASE key = "duty" -> <<S_duty, S_tariff, S_rate>>
      [] key = "unit price" -> <<S_unit_price, S_price, S_item_price, S_price_unit>>
      [] key = "qty" -> <<S_qty, S_quantity, S_units, S_pcs>>
      [] key = "description" -> <<S_description, S_product, S_item, S_dec, S_dec_dot>>
AllKeywords ==
    COL_KEYWORDS("duty") \o COL_KEYWORDS("unit price")
    \o COL_KEYWORDS("qty") \o COL_KEYWORDS("description")

FALLBACK_HEADER ==
    << <<"C","/","N","O",".">>, <<"C","O","D","E">>, <<"D","E","C",".">>,
       <<"Q","T","Y">>, <<"U","N","I","T"," ","P","R","I","C","E">>,
       <<"A","M","O","U","N","T">> >>

\* header_like(r): some cell of r, normalized, contains some keyword
header_like(r) ==
    \E i \in DOMAIN r : \E k \in Range(AllKeywords) : Contains(norm(r[i]), k)

\* One line of ",".join(r) read back by csv.reader: split at every comma;
\* a blank line gives no cells.  (Cells of the model hold no quote
\* character and no line break.)
CsvLine(r) ==
    IF Join(<<",">>, r) = <<>> THEN <<>>
    ELSE SplitOn(Join(<<",">>, r), ",", <<>>, <<>>)

\* csv.DictReader.__next__: dict(zip(fieldnames, row)), then restkey
\* (None) holds the cells beyond the header and restval (None) fills the
\* columns beyond the row
RECURSIVE ZipDict(_, _, _, _)
ZipDict(f, row, i, d) ==
    IF i > Min2(Len(f), Len(row)) THEN d
    ELSE ZipDict(f, row, i + 1, DictSet(d, f[i], StrV(row[i])))
RECURSIVE FillRest(_, _, _, _)
FillRest(f, i, d, v) ==
    IF i > Len(f) THEN d ELSE FillRest(f, i + 1, DictSet(d, f[i], v), v)
DictReaderRow(f, row) ==
    LET d == ZipDict(f, row, 1, <<>>)
    IN IF Len(f) < Len(row)
       THEN DictSet(d, NoneKey, ListV(SubSeq(row, Len(f) + 1, Len(row))))
       ELSE FillRest(f, Len(row) + 1, d, NoneV)

\* list(rdr) for the header_like branch: every raw row is re-joined with
\* commas and parsed again; the first line gives the fieldnames and blank
\* lines are skipped
RereadLines(rws) == [i \in DOMAIN rws |-> CsvLine(rws[i])]
RereadRecords(rws) ==
    LET lines == RereadLines(rws)
        data == SelectSeq(Tail(lines), LAMBDA l : l # <<>>)
    IN [i \in DOMAIN data |-> DictReaderRow(lines[1], data[i])]

\* find_col(hdr, key): the first header column whose normalized name
\* contains a keyword of the role; <<>> stands for the raise SystemExit
ColMatches(h, key) ==
    \E k \in Range(COL_KEYWORDS(key)) :
        Contains(norm([i \in DOMAIN h |-> IF h[i] = "_" THEN " " ELSE h[i]]), k)
find_col_ok(header, key) == \E i \in DOMAIN header : ColMatches(header[i], key)
find_col(header, key) ==
    header[CHOOSE i \in DOMAIN header :
              /\ ColMatches(header[i], key)
              /\ \A j \in 1..(i - 1) : ~ColMatches(header[j], key)]

\* s.startswith(p)
StartsWith(s, p) == Len(s) >= Len(p) /\ SubSeq(s, 1, Len(p)) = p

\* duty=find_col(hdr,"duty") if any(norm(h).startswith("duty") for h in hdr)
\*      else "duty"
DutyColumn(header) ==
    IF \E i \in DOMAIN header : StartsWith(norm(header[i]), S_duty)
    THEN find_col(header, "duty")
    ELSE S_duty

\* if x not in l: l.append(x)
AppendNew(l, x) == IF x \in Range(l) THEN l ELSE Append(l, x)

-----------------------------------------------------------------------------
(* parse_customs_pdf: the body of the loop over the worksheet's lines      *)

\* mapping[desc]=duty if desc is not empty
SameLine(mp, desc, duty) == IF desc # <<>> THEN DictSet(mp, desc, duty) ELSE mp
\* ParseMatched with the reset of prev_desc (line 73) left out
ParseMatchedNoReset(mp, pd, line, dm) ==
    IF line = <<>> THEN [mapping |-> mp, prev_desc |-> pd]
    ELSE IF dm.found /\ pd # <<>>
    THEN [mapping |-> DictSet(mp, norm(pd), SignalDuty(line, dm)),
          prev_desc |-> pd]
    ELSE IF dm.found
    THEN [mapping |-> SameLine(mp, norm(Slice(line, 0, dm.start)),
                               SignalDuty(line, dm)),
          prev_desc |-> pd]
    ELSE IF \E i \in DOMAIN line : IsAlpha(line[i])
    THEN [mapping |-> mp, prev_desc |-> line]
    ELSE [mapping |-> mp, prev_desc |-> pd]
\* the body for the stripped line and its match dm
ParseMatched(mp, pd, line, dm) ==
    IF line = <<>> THEN [mapping |-> mp, prev_desc |-> pd]
    ELSE IF dm.found /\ pd # <<>>
    THEN [mapping |-> DictSet(mp, norm(pd), SignalDuty(line, dm)),
          prev_desc |-> <<>>]
    ELSE IF dm.found
    THEN [mapping |-> SameLine(mp, norm(Slice(line, 0, dm.start)),
                               SignalDuty(line, dm)),
          prev_desc |-> pd]
    ELSE IF \E i \in DOMAIN line : IsAlpha(line[i])
    THEN [mapping |-> mp, prev_desc |-> line]
    ELSE [mapping |-> mp, prev_desc |-> pd]
ParseStripped(mp, pd, line) == ParseMatched(mp, pd, line, DutySignal(line))
ParseStep(mp, pd, raw) == ParseStripped(mp, pd, Strip(raw))

-----------------------------------------------------------------------------
(* rapidfuzz: fuzz.token_set_ratio and process.extractOne                  *)

\* code-point order of the characters a normalized string can hold
OrdSeq == <<" ">> \o DigitSeq \o LowerSeq
Ord(c) == IndexOf(OrdSeq, c)
\* a < b for strings, as Python compares them
RECURSIVE StrLess(_, _)
StrLess(a, b) ==
    IF b = <<>> THEN FALSE
    ELSE IF a = <<>> THEN TRUE
    ELSE IF Head(a) # Head(b) THEN Ord(Head(a)) < Ord(Head(b))
    ELSE StrLess(Tail(a), Tail(b))
\* sorted(S) for a set of strings
RECURSIVE SortedSeq(_)
SortedSeq(S) ==
    IF S = {} THEN <<>>
    ELSE LET lo == CHOOSE x \in S : \A y \in S \ {x} : StrLess(x, y)
         IN <<lo>> \o SortedSeq(S \ {lo})

\* The longest-common-subsequence table, row by row: row i holds at j the
\* LCS length of a[1..i] and b[1..j], from the row before it:
\*   L[i][j] = max(L[i-1][j], max{L[i-1][k-1] + 1 : k <= j, b[k] = a[i]})
SetMax(S) == CHOOSE x \in S : \A y \in S : x >= y
LcsRow(prev, c, b) ==
    [j \in 1..Len(b) |->
        SetMax({prev[j]} \cup
               {(IF k = 1 THEN 0 ELSE prev[k - 1]) + 1 :
                    k \in {k \in 1..j : b[k] = c}})]
RECURSIVE LcsRows(_, _, _, _)
LcsRows(a, b, i, prev) ==
    IF i > Len(a) THEN prev
    ELSE LcsRows(a, b, i + 1, LcsRow(prev, a[i], b))
LcsLen(a, b) ==
    IF a = <<>> \/ b = <<>> THEN 0
    ELSE LcsRows(a, b, 1, [j \in 1..Len(b) |-> 0])[Len(b)]
\* Indel distance: insertions and deletions only
indel_distance(a, b) == Len(a) + Len(b) - 2 * LcsLen(a, b)

\* A score is the fraction <<num, den>>, den > 0.
\* norm_distance: 100 - 100 * dist / lensum, or 100 when lensum is 0
norm_distance(dist, lensum) ==
    IF lensum = 0 THEN <<100, 1>> ELSE <<100 * (lensum - dist), lensum>>
ScoreGE(x, y) == x[1] * y[2] >= y[1] * x[2]
ScoreMax(x, y) == IF ScoreGE(x, y) THEN x ELSE y

token_set_ratio(s1, s2) ==
    LET tokens_a == Range(SplitWs(s1, <<>>, <<>>))
        tokens_b == Range(SplitWs(s2, <<>>, <<>>))
        intersect == tokens_a \cap tokens_b
        diff_ab == Join(<<" ">>, SortedSeq(tokens_a \ tokens_b))
        diff_ba == Join(<<" ">>, SortedSeq(tokens_b \ tokens_a))
        ab_len == Len(diff_ab)
        ba_len == Len(diff_ba)
        sect_len == Len(Join(<<" ">>, SortedSeq(intersect)))
        sep == IF sect_len # 0 THEN 1 ELSE 0
        sect_ab_len == sect_len + sep + ab_len
        sect_ba_len == sect_len + sep + ba_len
        result == norm_distance(indel_distance(diff_ab, diff_ba),
                                sect_ab_len + sect_ba_len)
        sect_ab_ratio == norm_distance(sep + ab_len, sect_len + sect_ab_len)
        sect_ba_ratio == norm_distance(sep + ba_len, sect_len + sect_ba_len)
    IN IF s1 = <<>> \/ s2 = <<>> THEN <<0, 1>>
       ELSE IF tokens_a = {} \/ tokens_b = {} THEN <<0, 1>>
       ELSE IF intersect # {} /\ (tokens_a \ tokens_b = {} \/ tokens_b \ tokens_a = {})
       THEN <<100, 1>>
       ELSE IF sect_len = 0 THEN result
       ELSE ScoreMax(ScoreMax(result, sect_ab_ratio), sect_ba_ratio)

\* extractOne(query, choices, scorer=token_set_ratio): the index of the
\* first choice whose score no other choice exceeds (choices not empty)
\* as [choice, score, index]
FirstBest(score) ==
    CHOOSE i \in DOMAIN score :
        /\ \A j \in DOMAIN score : ScoreGE(score[i], score[j])
        /\ \A j \in 1..(i - 1) : ~ScoreGE(score[j], score[i])
extractOne(query, choices) ==
    LET Result(score, best) ==
            [choice |-> choices[best], score |-> score[best], index |-> best]
        Scored(score) == Result(score, FirstBest(score))
    IN Scored([i \in DOMAIN choices |-> token_set_ratio(query, choices[i])])

\* best_match(desc, ref, thr=70): desc is the cell value; <<"none">> stands
\* for the None it returns
thr == 70
\* best_match with res[1]>thr in place of res[1]>=thr
best_match_strict(desc, ref) ==
    IF desc = NoneV \/ desc[2] = <<>> THEN NoneV
    ELSE LET Pick(res) ==
                 IF ~ScoreGE(<<thr, 1>>, res.score)
                 THEN IntV(DictGet(ref, res.choice))
                 ELSE NoneV
         IN IF ref = <<>> THEN NoneV
            ELSE Pick(extractOne(norm(desc[2]), DictKeys(ref)))
best_match(desc, ref) ==
    IF desc = NoneV \/ desc[2] = <<>> THEN NoneV
    ELSE LET Pick(res) ==
                 IF ScoreGE(res.score, <<thr, 1>>)
                 THEN IntV(DictGet(ref, res.choice))
                 ELSE NoneV
         IN IF ref = <<>> THEN NoneV
            ELSE Pick(extractOne(norm(desc[2]), DictKeys(ref)))

-----------------------------------------------------------------------------
(* The inputs of a run                                                     *)

\* invoice header rows
H_Duty ==
    << <<"D","e","s","c","r","i","p","t","i","o","n">>,
       <<"Q","t","y">>,
       <<"U","n","i","t"," ","P","r","i","c","e">>,
       <<"D","u","t","y">> >>
H_Tariff ==
    << <<"D","e","s","c","r","i","p","t","i","o","n">>,
       <<"Q","t","y">>,
       <<"U","n","i","t"," ","P","r","i","c","e">>,
       <<"T","a","r","i","f","f">> >>
H_Plain ==
    << <<"D","e","s","c","r","i","p","t","i","o","n">>,
       <<"Q","t","y">>,
       <<"U","n","i","t"," ","P","r","i","c","e">> >>
H_DescLast ==
    << <<"Q","t","y">>,
       <<"U","n","i","t"," ","P","r","i","c","e">>,
       <<"D","e","s","c","r","i","p","t","i","o","n">> >>
H_NoPrice ==
    << <<"D","e","s","c","r","i","p","t","i","o","n">>,
       <<"Q","t","y">> >>
HeaderVocab == {H_Duty, H_Tariff, H_Plain, H_DescLast, H_NoPrice}

\* invoice data rows (description, quantity, unit price, duty)
R_Patches ==
    << <<"P","a","t","c","h","e","s"," ","a","s","s","t","d">>,
       <<"5">>,
       <<"1","0",".","0","0">>,
       <<"0">> >>
R_Cents ==
    << <<"P","a","t","c","h","e","s"," ","a","s","s","t","d">>,
       <<"1","0","0">>,
       <<"0",".","3","3">>,
       <<"0">> >>
R_Gadget ==
    << <<"G","a","d","g","e","t"," ","b","o","x">>,
       <<"2",".","5">>,
       <<"1",".","1","0">>,
       <<"0">> >>
R_Widget ==
    << <<"W","i","d","g","e","t">>,
       <<"2">>,
       <<"$","1","2",".","5","0">>,
       <<"1","5","%">> >>
R_NotAvail ==
    << <<"G","i","z","m","o">>,
       <<"3","0","0"," ","p","c","s">>,
       <<"N",".","A",".">>,
       <<"0">> >>
R_Comma ==
    << <<"P","a","t","c","h","e","s",","," ","r","e","d">>,
       <<"5">>,
       <<"1","0",".","0","0">>,
       <<"0">> >>
R_Short ==
    << <<"5">>,
       <<"1","0",".","0","0">> >>
R_Long ==
    << <<"P","a","t","c","h","e","s"," ","a","s","s","t","d">>,
       <<"5">>,
       <<"1","0",".","0","0">>,
       <<"0">>,
       <<"x">> >>
RowVocab == {R_Patches, R_Cents, R_Gadget, R_Widget, R_NotAvail, R_Comma,
             R_Short, R_Long}

\* worksheet lines
L_Code == <<"4","9","0","8","1","0","9","0">>
L_Patches == <<"P","A","T","C","H","E","S">>
L_15pct == <<"1","5","%">>
L_Widgets20 == <<"W","I","D","G","E","T","S"," ","2","0","%">>
L_Gadgets == <<"G","A","D","G","E","T","S">>
L_FREE == <<"F","R","E","E">>
L_Free == <<"F","r","e","e">>
L_Blank == <<" ">>
L_AB == <<"A","B"," ","5",".","0">>
LineVocab == {L_Code, L_Patches, L_15pct, L_Widgets20, L_Gadgets, L_FREE, L_Free, L_Blank, L_AB}
L_PatchesWoven20 == <<"P","A","T","C","H","E","S"," ","W","O","V","E","N"," ","2","0","%">>
K_patches == <<"p","a","t","c","h","e","s">>
K_widgets == <<"w","i","d","g","e","t","s">>
K_gadgets == <<"g","a","d","g","e","t","s">>
K_patches_woven == <<"p","a","t","c","h","e","s"," ","w","o","v","e","n">>
K_ab == <<"a","b">>

\* bounds of the model
MaxRows == 2
MaxLines == 3

SeqsUpTo(S, n) == UNION {[1..k -> S] : k \in 0..n}

\* the invoices: empty, a header row and up to MaxRows data rows, or data
\* rows only
InvoiceSet ==
    {<<>>}
    \cup {<<h>> \o body : h \in HeaderVocab, body \in SeqsUpTo(RowVocab, MaxRows)}
    \cup (SeqsUpTo(RowVocab, MaxRows) \ {<<>>})

W_Patches == <<L_Code, L_Patches, L_15pct>>
W_Woven == <<L_PatchesWoven20>>
W_None == <<L_Code>>
WorksheetSet == SeqsUpTo(LineVocab, MaxLines)

\* FactorTables: 0 -> 1.5, 15 -> 25.91, 20 -> 1.005; 15 -> 25.91 alone;
\* and 15 -> 0.00001, a factor that str() writes with an exponent
F_Full == (0 :> FloatV(15, 1)) @@ (15 :> FloatV(2591, 2)) @@ (20 :> FloatV(1005, 3))
F_Only15 == (15 :> FloatV(2591, 2))
F_Tiny == (15 :> FloatV(1, 5))

-----------------------------------------------------------------------------
(* The run: process_invoice                                                *)

NoErr == <<"none">>
NoCols == [price |-> <<>>, qty |-> <<>>, desc |-> <<>>, duty |-> <<>>]
\* the slice [:40] of the description in the missing-factor message
DescCut == 40

Init ==
    /\ \/ /\ invoice \in InvoiceSet
          /\ worksheet \in {W_Patches, W_Woven, W_None}
          /\ factors \in {F_Full, F_Only15}
       \/ /\ invoice = <<H_Duty, R_Patches>>
          /\ worksheet \in WorksheetSet
          /\ factors = F_Full
       \/ /\ invoice \in {<<H_Duty, R_Patches>>, <<H_Duty, R_Cents>>}
          /\ worksheet = W_Patches
          /\ factors = F_Tiny
    /\ pc = "start"
    /\ hdr = <<>>
    /\ rows = <<>>
    /\ cols = NoCols
    /\ mapping = <<>>
    /\ prev_desc = <<>>
    /\ li = 0
    /\ ri = 0
    /\ out = <<"absent">>
    /\ err = NoErr

\* an exception leaves process_invoice
Raise(e) == pc' = "failed" /\ err' = e

\* rows, hdr = read_invoice(inv)
read_invoice ==
    /\ pc = "start"
    /\ IF invoice = <<>>
       THEN /\ Raise(<<"SystemExit", "Invoice CSV empty.">>)
            /\ UNCHANGED <<hdr, rows>>
       ELSE IF header_like(invoice[1])
       THEN /\ hdr' = CsvLine(invoice[1])
            /\ rows' = RereadRecords(invoice)
            /\ pc' = "cols"
            /\ UNCHANGED err
       ELSE \* csv.DictReader is handed lists, not strings: csv.reader
            \* raises on the first row it is asked for
            /\ Raise(<<"csv.Error", "iterator should return strings, not list">>)
            /\ UNCHANGED <<hdr, rows>>
    /\ UNCHANGED <<invoice, worksheet, factors, cols, mapping, prev_desc, li,
                   ri, out>>

\* price=find_col(..); qty=find_col(..); desc=find_col(..); duty=..;
\* if duty not in hdr: hdr.append(duty)
MissingRole(header) ==
    IF ~find_col_ok(header, "unit price") THEN "unit price"
    ELSE IF ~find_col_ok(header, "qty") THEN "qty"
    ELSE IF ~find_col_ok(header, "description") THEN "description"
    ELSE "none"
resolve_columns ==
    /\ pc = "cols"
    /\ IF MissingRole(hdr) # "none"
       THEN /\ Raise(<<"SystemExit", "Missing column", MissingRole(hdr)>>)
            /\ UNCHANGED <<cols, hdr>>
       ELSE /\ cols' = [price |-> find_col(hdr, "unit price"),
                        qty |-> find_col(hdr, "qty"),
                        desc |-> find_col(hdr, "description"),
                        duty |-> DutyColumn(hdr)]
            /\ hdr' = AppendNew(hdr, DutyColumn(hdr))
            /\ pc' = "parse"
            /\ UNCHANGED err
    /\ UNCHANGED <<invoice, worksheet, factors, rows, mapping, prev_desc, li,
                   ri, out>>

\* parse_customs_pdf: one iteration of the loop over the lines
parse_line ==
    /\ pc = "parse"
    /\ li < Len(worksheet)
    /\ LET Assign(st) == mapping' = st.mapping /\ prev_desc' = st.prev_desc
       IN Assign(ParseStep(mapping, prev_desc, worksheet[li + 1]))
    /\ li' = li + 1
    /\ UNCHANGED <<invoice, worksheet, factors, pc, hdr, rows, cols, ri, out,
                   err>>

\* parse_customs_pdf: after the loop
parse_end ==
    /\ pc = "parse"
    /\ li = Len(worksheet)
    /\ IF mapping = <<>>
       THEN Raise(<<"SystemExit", "Could not extract pairs">>)
       ELSE pc' = "loop" /\ UNCHANGED err
    /\ UNCHANGED <<invoice, worksheet, factors, hdr, rows, cols, mapping,
                   prev_desc, li, ri, out>>

\* r.get(key, "")
RecGet(r, key) == IF DictHas(r, key) THEN DictGet(r, key) ELSE StrV(<<>>)

\* d=int(float(NUM_RE.sub("", r.get(duty,"")) or 0))
\* if d==0: d=best_match(r.get(desc,""), ref) or 0
DeclaredDuty(r, duty) == IntOfFloat(StrippedFloat(RecGet(r, duty)[2]))
ResolvedDuty(r, duty, desc, ref) ==
    LET OrZero(m) == IF m = NoneV THEN 0 ELSE m[2]
        Pick(d) == IF d # 0 THEN d ELSE OrZero(best_match(RecGet(r, desc), ref))
    IN Pick(DeclaredDuty(r, duty))

\* val=round(smart_float(r[price])*f,2), in hundredths
ValueOf(pcell, f) ==
    LET p == smart_float(pcell) IN Round2(p.m * f[2], p.sc + f[3])
\* tot=round(val*smart_float(r[qty]),2), in hundredths, from the rounded val
TotalOf(val, qcell) ==
    LET q == smart_float(qcell) IN Round2(val * q.m, 2 + q.sc)

SetRow(r) == rows' = [rows EXCEPT ![ri + 1] = r]

\* r["factor"]=f; r["value"]=f"{val:.2f}"; r["total"]=f"{tot:.2f}"
Costed(r1, f, val, tot) ==
    DictSet(DictSet(DictSet(r1, S_factor, f), S_value, StrV(Format2f(val))),
            S_total, StrV(Format2f(tot)))

\* CostRecord with tot=round(price*f*qty,2): the total taken from the
\* product before it is rounded
CostRecordUnrounded(r1, f) ==
    IF ~smart_float_ok(DictGet(r1, cols.price))
       \/ ~smart_float_ok(DictGet(r1, cols.qty))
    THEN /\ Raise(<<"ValueError", "could not convert string to float">>)
         /\ SetRow(r1)
         /\ UNCHANGED ri
    ELSE LET p == smart_float(DictGet(r1, cols.price))
             q == smart_float(DictGet(r1, cols.qty))
         IN \E val \in Round2(p.m * f[2], p.sc + f[3]) :
            \E tot \in Round2(p.m * f[2] * q.m, p.sc + f[3] + q.sc) :
               /\ SetRow(Costed(r1, f, val, tot))
               /\ ri' = ri + 1
               /\ UNCHANGED <<pc, err>>
\* line 106 on: r[duty]=d, then value and total
CostRecord(r1, f) ==
    IF ~smart_float_ok(DictGet(r1, cols.price))
       \/ ~smart_float_ok(DictGet(r1, cols.qty))
    THEN /\ Raise(<<"ValueError", "could not convert string to float">>)
         /\ SetRow(r1)
         /\ UNCHANGED ri
    ELSE \E val \in ValueOf(DictGet(r1, cols.price), f) :
         \E tot \in TotalOf(val, DictGet(r1, cols.qty)) :
            /\ SetRow(Costed(r1, f, val, tot))
            /\ ri' = ri + 1
            /\ UNCHANGED <<pc, err>>

\* line 105 on, for the resolved duty d
CheckFactor(r, desccell, d) ==
    IF d \notin DOMAIN factors
    THEN /\ IF desccell[1] # "str"
            THEN \* r.get(desc)[:40] on None
                 Raise(<<"TypeError", "'NoneType' object is not subscriptable">>)
            ELSE Raise(<<"SystemExit", "No factor for duty", d,
                         Slice(desccell[2], 0, DescCut)>>)
         /\ UNCHANGED <<rows, ri>>
    ELSE CostRecord(DictSet(r, cols.duty, IntV(d)), factors[d])

\* the body of  for r in rows:  for the record r and its duty cell
ProcessRow(r, dcell) ==
    IF dcell[1] # "str"
    THEN \* NUM_RE.sub("", None)
         /\ Raise(<<"TypeError", "expected string or bytes-like object">>)
         /\ UNCHANGED <<rows, ri>>
    ELSE IF ~StrippedOk(dcell[2])
    THEN /\ Raise(<<"ValueError", "could not convert string to float">>)
         /\ UNCHANGED <<rows, ri>>
    ELSE CheckFactor(r, RecGet(r, cols.desc),
                     ResolvedDuty(r, cols.duty, cols.desc, mapping))

process_record ==
    /\ pc = "loop"
    /\ ri < Len(rows)
    /\ ProcessRow(rows[ri + 1], RecGet(rows[ri + 1], cols.duty))
    /\ UNCHANGED <<invoice, worksheet, factors, hdr, cols, mapping, prev_desc,
                   li, out>>

\* the text csv.writer puts in a field: None gives the empty field
FieldText(v) == IF v = NoneV THEN <<>> ELSE PyStr(v)
\* DictWriter._dict_to_list
HasExtraKeys(r, fieldnames) == \E i \in DOMAIN r : r[i][1] \notin Range(fieldnames)
dict_to_list(r, fieldnames) ==
    [i \in DOMAIN fieldnames |->
        IF DictHas(r, fieldnames[i]) THEN FieldText(DictGet(r, fieldnames[i]))
        ELSE <<>>]

FinalHeader(h) == AppendNew(AppendNew(AppendNew(h, S_factor), S_value), S_total)

\* after the loop: the three columns are appended, the file is opened, the
\* header and then the rows are written; the first record with a key that
\* is no column makes writerows raise, the rows before it already written
write_output ==
    /\ pc = "loop"
    /\ ri = Len(rows)
    /\ hdr' = FinalHeader(hdr)
    /\ LET bad == {i \in DOMAIN rows : HasExtraKeys(rows[i], hdr')}
           stop == IF bad = {} THEN Len(rows) + 1
                   ELSE CHOOSE i \in bad : \A j \in bad : i <= j
       IN /\ out' = <<"file", <<hdr'>> \o
                       [i \in 1..(stop - 1) |-> dict_to_list(rows[i], hdr')]>>
          /\ IF bad = {} THEN pc' = "done" /\ UNCHANGED err
             ELSE Raise(<<"ValueError", "dict contains fields not in fieldnames">>)
    /\ UNCHANGED <<invoice, worksheet, factors, rows, cols, mapping, prev_desc,
                   li, ri>>

Next ==
    \/ read_invoice
    \/ resolve_columns
    \/ parse_line
    \/ parse_end
    \/ process_record
    \/ write_output

Spec == Init /\ [][Next]_vars

-----------------------------------------------------------------------------
(* The worksheet parser: claims C2, C9, C10                                *)

\* a step of the loop over the worksheet's lines, and the line it reads
ParseLineStep == pc = "parse" /\ li' = li + 1
CurLine == Strip(worksheet[li + 1])
HasLetters(line) == \E i \in DOMAIN line : IsAlpha(line[i])
\* the normalized text that stands before the line's duty signal
TextBefore(line) == norm(Slice(line, 0, DutySignal(line).start))
\* the line holds a duty signal and no text of its own before it
BareSignal(line) == DutySignal(line).found /\ TextBefore(line) = <<>>
\* the duty a signal stands for: 0 for FREE, else its one or two digits
DutyOfSignal(sig) == IF sig.re = "FREE_PAT" THEN 0 ELSE sig.group1

C2_Step ==
    LET line == CurLine
        sig == DutySignal(line)
    IN /\ (line = <<>>) => UNCHANGED <<mapping, prev_desc>>
       /\ (line # <<>> /\ ~sig.found /\ ~HasLetters(line))
             => UNCHANGED <<mapping, prev_desc>>
       /\ (prev_desc = <<>> /\ ~sig.found /\ HasLetters(line))
             => (mapping' = mapping /\ prev_desc' = line)
       /\ (prev_desc # <<>> /\ BareSignal(line))
             => /\ mapping' = DictSet(mapping, norm(prev_desc), DutyOfSignal(sig))
                /\ prev_desc' = <<>>
       /\ (prev_desc = <<>> /\ BareSignal(line))
             => UNCHANGED <<mapping, prev_desc>>
       /\ (prev_desc = <<>> /\ sig.found /\ TextBefore(line) # <<>>)
             => /\ mapping' = DictSet(mapping, TextBefore(line), DutyOfSignal(sig))
                /\ prev_desc' = <<>>
C2_Examples ==
    /\ (worksheet = <<L_Code, L_Patches, L_15pct>> /\ li = 3)
          => mapping = << <<K_patches, 15>> >>
    /\ (worksheet = <<L_Widgets20>> /\ li = 1)
          => mapping = << <<K_widgets, 20>> >>
    /\ (worksheet = <<L_Gadgets, L_FREE>> /\ li = 2)
          => mapping = << <<K_gadgets, 0>> >>
\* C2: starting with no pending description, every step of the parser
\* follows the three layouts. A blank line and a line with neither letters
\* nor a duty signal (a digits-only code) change nothing; a line with
\* letters and no signal becomes the pending description; a signal-only
\* line records normalized pending description -> duty and clears the
\* pending description, and records nothing when none is pending; a line
\* with text before its signal records that text -> duty; FREE in any case
\* is duty 0. The three worksheets of the claim give exactly
\* {patches: 15}, {widgets: 20} and {gadgets: 0}.
C2_Layouts == []C2_Examples /\ [][ParseLineStep => C2_Step]_vars
\* the worksheet 49081090 / PATCHES / 15% read to its end
C2_Witness ==
    /\ worksheet = <<L_Code, L_Patches, L_15pct>>
    /\ li = 3
    /\ prev_desc = <<>>
    /\ mapping = << <<K_patches, 15>> >>

\* C9: while a description is pending, a line that is not a bare duty
\* signal goes through the same-line logic: with text of its own before a
\* signal it records its own description -> duty and nothing for the old
\* pending description, which is dropped; with letters and no signal it
\* becomes the pending description and nothing is recorded.
C9_PendingFallsThrough ==
    [][(ParseLineStep /\ prev_desc # <<>> /\ CurLine # <<>>
            /\ ~BareSignal(CurLine))
         => IF DutySignal(CurLine).found
            THEN /\ mapping' = DictSet(mapping, TextBefore(CurLine),
                                       DutyOfSignal(DutySignal(CurLine)))
                 /\ prev_desc' = <<>>
            ELSE IF HasLetters(CurLine)
            THEN mapping' = mapping /\ prev_desc' = CurLine
            ELSE UNCHANGED <<mapping, prev_desc>>]_vars

IsNormalized(k) ==
    /\ \A i \in DOMAIN k : k[i] \in Lower \cup Digit \cup {" "}
    /\ k # <<>> => (k[1] # " " /\ k[Len(k)] # " ")
\* C10 as stated: every key is normalized and at least 3 characters long,
\* every value is an integer in 0..99
C10_MinLength ==
    \A i \in DOMAIN mapping :
        /\ IsNormalized(mapping[i][1])
        /\ Len(mapping[i][1]) >= 3
        /\ mapping[i][2] \in 0..99
\* C10 as amended: every key is normalized (lower-case, only a-z, 0-9 and
\* spaces, trimmed) and every value is an integer in 0..99; no minimum
\* length is enforced, so that the line "AB 5.0" enters ab -> 5.
C10_Normalized ==
    /\ \A i \in DOMAIN mapping :
          /\ IsNormalized(mapping[i][1])
          /\ mapping[i][2] \in 0..99
    /\ (worksheet = <<L_AB>> /\ li = 1) => mapping = << <<K_ab, 5>> >>
\* a two-character key is in the table
C10_Witness ==
    /\ li = Len(worksheet)
    /\ \E i \in DOMAIN mapping : mapping[i][1] = K_ab /\ mapping[i][2] = 5

-----------------------------------------------------------------------------
(* The loader and the column roles: claims C3, C4, C5, C8                  *)

\* the zip of a header and a row that pads with "" and drops the excess
PadZip(header, row) ==
    [i \in DOMAIN header |->
        <<header[i], StrV(IF i <= Len(row) THEN row[i] ELSE <<>>)>>]

\* C3: an invoice whose row 0 holds no role keyword loads without error
\* under the six-column fallback header, every raw row, row 0 included,
\* being a record keyed positionally by it; description, quantity and unit
\* price resolve to DEC., QTY and UNIT PRICE.
C3_FallbackHeader ==
    (invoice # <<>> /\ ~header_like(invoice[1]) /\ pc # "start")
    => /\ pc # "failed"
       /\ pc = "cols"
             => /\ hdr = FALLBACK_HEADER
                /\ rows = [i \in DOMAIN invoice |->
                              PadZip(FALLBACK_HEADER, invoice[i])]
       /\ cols # NoCols
             => /\ cols.desc = FALLBACK_HEADER[3]
                /\ cols.qty = FALLBACK_HEADER[4]
                /\ cols.price = FALLBACK_HEADER[5]

\* C4: under a detected header every data row gives one record, in row
\* order, the pad/truncate zip of header and row with every cell
\* unchanged; a row shorter or longer than the header never makes the run
\* fail, and every row written has exactly the final header's columns.
C4_PadTruncate ==
    (invoice # <<>> /\ header_like(invoice[1]) /\ pc # "start")
    => /\ pc = "cols"
             => /\ hdr = invoice[1]
                /\ rows = [i \in 1..(Len(invoice) - 1) |->
                              PadZip(invoice[1], invoice[i + 1])]
       /\ pc = "failed" => err[1] \notin {"TypeError"}
       /\ pc = "failed"
             => err # <<"ValueError", "dict contains fields not in fieldnames">>
       /\ out # <<"absent">>
             => \A i \in DOMAIN out[2] : Len(out[2][i]) = Len(out[2][1])

\* the cells of a record that hold a quantity, a unit price or a duty
NumericCells(r) ==
    {RecGet(r, c)[2] : c \in {c \in {cols.price, cols.qty, cols.duty} :
                                 RecGet(r, c)[1] = "str"}}
HasDigit(s) == \E i \in DOMAIN s : s[i] \in Digit
\* C5: every string of a unit-price, quantity or duty cell normalizes to a
\* number, 0 when it holds no digit, and the run never aborts on one.
C5_Lenient ==
    /\ pc = "failed"
          => err # <<"ValueError", "could not convert string to float">>
    /\ pc = "loop"
          => \A i \in DOMAIN rows : \A s \in NumericCells(rows[i]) :
                /\ StrippedOk(s)
                /\ ~HasDigit(s) => StrippedFloat(s).m = 0

\* the first header column with a duty keyword, else the literal "duty"
KeywordDutyColumn(header) ==
    IF find_col_ok(header, "duty") THEN find_col(header, "duty") ELSE S_duty
\* C8: the duty column is the first header column whose normalized name
\* contains duty, tariff or rate; the literal "duty" is used, and appended
\* to the header, only when no column contains one of them.
C8_DutyRole ==
    cols # NoCols
    => /\ cols.duty = KeywordDutyColumn(CsvLine(invoice[1]))
       /\ (pc = "parse" /\ find_col_ok(CsvLine(invoice[1]), "duty"))
             => hdr = CsvLine(invoice[1])

-----------------------------------------------------------------------------
(* The record loop: claims C1, C6, C7                                      *)

\* the records as loaded, before the loop writes into them
LoadedRecords == RereadRecords(invoice)
\* the loop has written the resolved duty into record i
DutyWritten(i) ==
    DictHas(rows[i], cols.duty) /\ DictGet(rows[i], cols.duty)[1] = "int"

\* the duty the rule of C1 gives the loaded record o
RuleDuty(o) ==
    LET declared == IntOfFloat(StrippedFloat(RecGet(o, cols.duty)[2]))
        dcell == RecGet(o, cols.desc)
        keys == DictKeys(mapping)
        score == [k \in DOMAIN keys |->
                     token_set_ratio(norm(dcell[2]), keys[k])]
    IN IF declared # 0 THEN declared
       ELSE IF dcell[1] # "str" \/ dcell[2] = <<>> \/ keys = <<>> THEN 0
       ELSE IF ScoreGE(score[FirstBest(score)], <<70, 1>>)
       THEN mapping[FirstBest(score)][2]
       ELSE 0
\* C1: the duty written into a record's duty column is the declared duty
\* when that is not 0; otherwise the duty of the best-scoring DutyTable key
\* for the normalized description when its score is at least 70 (exactly
\* 70 counts); otherwise 0.
C1_DutyRule ==
    \A i \in DOMAIN rows :
        /\ i <= ri => DutyWritten(i)
        /\ DutyWritten(i)
              => DictGet(rows[i], cols.duty) = IntV(RuleDuty(LoadedRecords[i]))
\* a declared duty of 0 resolved to 20 by a key that scores exactly 70
C1_Witness ==
    /\ pc = "done"
    /\ invoice = <<H_Duty, R_Patches>>
    /\ mapping = << <<K_patches_woven, 20>> >>
    /\ ScoreGE(token_set_ratio(norm(R_Patches[1]), K_patches_woven), <<70, 1>>)
    /\ ScoreGE(<<70, 1>>, token_set_ratio(norm(R_Patches[1]), K_patches_woven))
    /\ DictGet(rows[1], cols.duty) = IntV(20)

\* the description a message shows: its first 40 characters
ShownDesc(r) ==
    LET dc == RecGet(r, cols.desc)
    IN Slice(IF dc[1] = "str" THEN dc[2] ELSE <<>>, 0, 40)
\* the loop is at a record whose resolved duty has no factor
AtMissingFactor ==
    /\ pc = "loop"
    /\ ri < Len(rows)
    /\ RecGet(rows[ri + 1], cols.duty)[1] = "str"
    /\ StrippedOk(RecGet(rows[ri + 1], cols.duty)[2])
    /\ ResolvedDuty(rows[ri + 1], cols.duty, cols.desc, mapping)
          \notin DOMAIN factors
\* C6: at the first record whose resolved duty is no key of the
\* FactorTable the run aborts with the message that names the duty and the
\* first 40 characters of the description; the output is written only
\* after every record is costed, so none exists after this failure.
C6_MissingFactor ==
    /\ [](out # <<"absent">> => ri = Len(rows))
    /\ [][AtMissingFactor
            => /\ pc' = "failed"
               /\ err' = <<"SystemExit", "No factor for duty",
                           ResolvedDuty(rows[ri + 1], cols.duty, cols.desc,
                                        mapping),
                           ShownDesc(rows[ri + 1])>>
               /\ out' = <<"absent">>
               /\ ri' = ri]_vars

\* v hundredths is a nearest hundredth of m / 10^sc
NearestHundredth(v, m, sc) ==
    LET d == v * Pow10(sc) - 100 * m
    IN 2 * (IF d < 0 THEN -d ELSE d) <= Pow10(sc)
\* s is a number written with exactly two decimal places
TwoPlaces(s) ==
    /\ Len(s) >= 4
    /\ s[Len(s) - 2] = "."
    /\ \A i \in DOMAIN s : i # Len(s) - 2 => s[i] \in Digit
\* the hundredths a two-place number stands for
Hundredths(s) == StrippedFloat(s).m
C7_Record(r, o) ==
    LET f == factors[DictGet(r, cols.duty)[2]]
        p == smart_float(DictGet(o, cols.price))
        q == smart_float(DictGet(o, cols.qty))
        value == DictGet(r, S_value)[2]
        total == DictGet(r, S_total)[2]
    IN /\ DictGet(r, S_factor) = f
       /\ TwoPlaces(value)
       /\ TwoPlaces(total)
       /\ NearestHundredth(Hundredths(value), p.m * f[2], p.sc + f[3])
       /\ NearestHundredth(Hundredths(total), Hundredths(value) * q.m,
                           2 + q.sc)
\* C7: value is unit price x factor rounded to 2 decimals and total is the
\* rounded value x quantity rounded to 2 decimals, both written with two
\* decimal places, the factor as supplied. Patches asstd at 10.00 x 5 with
\* {patches: 15} and {15: 25.91} gives duty 15, value 259.10 and total
\* 1295.50.
C7_Costing ==
    /\ \A i \in 1..ri : C7_Record(rows[i], LoadedRecords[i])
    /\ (invoice = <<H_Duty, R_Patches>> /\ mapping = << <<K_patches, 15>> >>
           /\ factors = F_Only15 /\ ri = 1)
          => /\ DictGet(rows[1], cols.duty) = IntV(15)
             /\ DictGet(rows[1], S_value) = StrV(<<"2","5","9",".","1","0">>)
             /\ DictGet(rows[1], S_total)
                   = StrV(<<"1","2","9","5",".","5","0">>)
\* 0.33 x 25.91 = 8.5503 is written 8.55, and the total for 100 pieces is
\* 855.00 where the unrounded product gives 855.03
C7_Witness ==
    /\ pc = "done"
    /\ invoice = <<H_Duty, R_Cents>>
    /\ factors = F_Only15
    /\ DictGet(rows[1], S_value) = StrV(<<"8",".","5","5">>)
    /\ DictGet(rows[1], S_total) = StrV(<<"8","5","5",".","0","0">>)

=============================================================================
